---- MODULE Spec2Model ----
(***************************************************************************)
(* Model of the metrics-dashboard API routes:                              *)
(*   src/app/api/jira/metrics/health-matrix/route.ts  (health-matrix GET,  *)
(*       lines 1-136, and the dora GET with its own helper copies,         *)
(*       lines 138-290)                                                    *)
(*   src/app/api/jira/health/route.ts                 (health GET)         *)
(*                                                                         *)
(* Conventions.                                                            *)
(*  - An optional JSON / environment / query value is a sequence of length *)
(*    at most one: None is "undefined or null", Some(x) is the value x.    *)
(*  - A timestamp is the number of milliseconds new Date(s).getTime()      *)
(*    yields.                                                              *)
(*  - A text built by a template literal is the sequence of its pieces.    *)
(*  - A metric produced by parseFloat(x.toFixed(1)) is carried in tenths   *)
(*    (8.0 is 80, 33.3 is 333); velocity is a plain sum.                   *)
(***************************************************************************)
EXTENDS Integers, Sequences, FiniteSets, TLC

VARIABLES
    env,           \* process.env: JIRA_EMAIL, JIRA_API_TOKEN, JIRA_DOMAIN
    route,         \* which GET handler this invocation runs
    query,         \* request.url search parameters (dora)
    pc,            \* position of the handler
    idx,           \* position of `for (const project of projects)`
    healthMatrix,  \* the healthMatrix record being filled (set of entries)
    pending,       \* outbound fetch calls not yet answered
    reply,         \* the answer the awaiting handler resumes with
    caught,        \* error.message bound by the catch clause
    responses,     \* NextResponse objects returned by the handler
    trace,         \* log of fetch calls started and of their outcomes
    input,         \* issues argument of a direct calculateDORAMetrics call
    outMatrix,     \* result of the health-matrix copy on input
    outDora        \* result of the dora copy on input

vars == <<env, route, query, pc, idx, healthMatrix, pending, reply, caught,
          responses, trace, input, outMatrix, outDora>>

handlerVars == <<env, route, query, pc, idx, healthMatrix, pending, reply,
                 caught, responses, trace>>

calcVars == <<input, outMatrix, outDora>>

-----------------------------------------------------------------------------
(* Optional values and JavaScript truthiness                                *)

None == <<>>

Some(x) == <<x>>

\* `if (s)` / `s || d` on an optional string: null, undefined and '' are falsy.
TruthyStr(o) == o # None /\ o[1] # ""

\* `if (n)` / `n || 0` on an optional number: null, undefined and 0 are falsy.
TruthyNum(o) == o # None /\ o[1] # 0

\* `${v}` of an optional string inside a template literal.
Interpolate(o) == IF o = None THEN "undefined" ELSE o[1]

-----------------------------------------------------------------------------
(* Bounds of the inputs                                                     *)

MaxIssues == 3

MaxHist == 2

MaxPoints == 2

-----------------------------------------------------------------------------
(* Issue records: fields.status.name, fields.issuetype.name,               *)
(* fields.created, fields.resolutiondate, fields.customfield_10024 and     *)
(* changelog.histories of the upstream search result                       *)

\* 1000 * 60 * 60 * 24, the divisor of calculateDaysBetween
DayMs == 1000 * 60 * 60 * 24

Statuses == {"Released", "Done"}

IssueTypes == {"Bug", "Story"}

\* changelog items: the matching transition, a status transition to another
\* status, and a change of another field whose new value reads the same
ItemSet ==
    { [field |-> "status",   toString |-> "In Development"],
      [field |-> "status",   toString |-> "Released"],
      [field |-> "assignee", toString |-> "In Development"] }

ItemLists ==
    {<<>>} \cup {<<a>> : a \in ItemSet} \cup {<<a, b>> : a, b \in ItemSet}

HistTimes == {0, 2 * DayMs}

Histories == [created : HistTimes, items : ItemLists]

RECURSIVE SeqsUpTo(_, _)
SeqsUpTo(S, n) ==
    IF n = 0 THEN {<<>>}
    ELSE LET shorter == SeqsUpTo(S, n - 1)
         IN  shorter \cup {Append(s, x) : s \in shorter, x \in S}

\* changelog: absent (or without histories), or Some(histories)
Changelogs == {None} \cup {Some(h) : h \in SeqsUpTo(Histories, MaxHist)}

Issue(st, ty, cr, rd, sp, cl) ==
    [status |-> st, issuetype |-> ty, created |-> cr, resolutiondate |-> rd,
     customfield_10024 |-> sp, changelog |-> cl]

DevAtZero ==
    Some(<<[created |-> 0,
            items |-> <<[field |-> "status", toString |-> "In Development"]>>]>>)

\* one issue with every changelog shape
RichIssues ==
    { Issue(st, "Story", Some(0), rd, None, cl) :
        st \in Statuses, rd \in {None, Some(1), Some(DayMs + 1)},
        cl \in Changelogs }

\* issues that differ in what lead time reads
LeadIssues ==
    { Issue(st, "Story", Some(0), rd, None, cl) :
        st \in Statuses, rd \in {None, Some(1), Some(DayMs + 1)},
        cl \in {None, DevAtZero} }

\* issues that differ in what failure rate and recovery time read
BugIssues ==
    { Issue(st, ty, cr, rd, None, None) :
        st \in Statuses, ty \in IssueTypes, cr \in {None, Some(0)},
        rd \in {None, Some(DayMs + 1)} }

\* issues that differ in what velocity reads
PointIssues ==
    { Issue(st, "Story", Some(0), Some(DayMs + 1), sp, None) :
        st \in Statuses, sp \in {None} \cup {Some(n) : n \in 0 .. MaxPoints} }

\* issues that vary in every field at once
MixedIssues ==
    { Issue(st, ty, cr, rd, sp, cl) :
        st \in Statuses, ty \in IssueTypes, cr \in {None, Some(0)},
        rd \in {None, Some(0), Some(DayMs + 1)}, sp \in {None, Some(1)},
        cl \in {None, DevAtZero,
                Some(<<[created |-> 0,
                        items |-> <<[field |-> "status",
                                     toString |-> "Released"]>>]>>)} }

\* the issue lists the metric functions are called on
InIssueLists(l) ==
    \/ \E i \in RichIssues : l = <<i>>
    \/ l \in SeqsUpTo(LeadIssues, MaxIssues)
    \/ l \in SeqsUpTo(BugIssues, MaxIssues)
    \/ l \in SeqsUpTo(PointIssues, MaxIssues)
    \/ \E i, j \in MixedIssues : l = <<i, j>>

-----------------------------------------------------------------------------
(* Helpers shared by the translation                                        *)

\* Math.abs
MathAbs(x) == IF x < 0 THEN -x ELSE x

\* Math.ceil(n / d) for n >= 0, d > 0
MathCeil(n, d) == (n + d - 1) \div d

\* (n / d).toFixed(1) read back by parseFloat, in tenths, for n >= 0, d > 0:
\* the nearest tenth, the larger one at a tie
toFixed1(n, d) == (20 * n + d) \div (2 * d)

-----------------------------------------------------------------------------
(* metrics/health-matrix/route.ts lines 26-98: the metric computation of    *)
(* the health-matrix handler                                                *)

calculateDaysBetween(date1, date2) ==
    LET diffTime == MathAbs(date2 - date1)
    IN  MathCeil(diffTime, DayMs)

\* the inner loop: some item of the history is the wanted status transition
itemsMatch(items, statusName) ==
    \E k \in 1 .. Len(items) :
        items[k].field = "status" /\ items[k].toString = statusName

\* the outer loop from history h on: created of the first matching history
RECURSIVE scanHistories(_, _, _)
scanHistories(histories, h, statusName) ==
    IF h > Len(histories) THEN None
    ELSE IF itemsMatch(histories[h].items, statusName)
         THEN Some(histories[h].created)
         ELSE scanHistories(histories, h + 1, statusName)

\* a scan that keeps going and returns the last matching history
RECURSIVE scanHistoriesLast(_, _, _, _)
scanHistoriesLast(histories, h, statusName, found) ==
    IF h > Len(histories) THEN found
    ELSE scanHistoriesLast(histories, h + 1, statusName,
             IF itemsMatch(histories[h].items, statusName)
             THEN Some(histories[h].created) ELSE found)

findStatusChangeTimeLast(changelog, statusName) ==
    IF changelog = None THEN None
    ELSE scanHistoriesLast(changelog[1], 1, statusName, None)

findStatusChangeTime(changelog, statusName) ==
    IF changelog = None THEN None
    ELSE scanHistories(changelog[1], 1, statusName)

releasedIssues(issues) ==
    SelectSeq(issues,
              LAMBDA i : i.status = "Released" /\ i.resolutiondate # None)

\* releasedIssues.forEach(...) from issue k on: <<totalLeadTime, leadTimeCount>>
RECURSIVE leadTimeLoop(_, _, _, _)
leadTimeLoop(released, k, totalLeadTime, leadTimeCount) ==
    IF k > Len(released) THEN <<totalLeadTime, leadTimeCount>>
    ELSE LET issue == released[k]
             devStartTime ==
                 findStatusChangeTime(issue.changelog, "In Development")
             releaseTime == issue.resolutiondate[1]
         IN  IF devStartTime # None
             THEN leadTimeLoop(released, k + 1,
                      totalLeadTime
                        + calculateDaysBetween(devStartTime[1], releaseTime),
                      leadTimeCount + 1)
             ELSE leadTimeLoop(released, k + 1, totalLeadTime, leadTimeCount)

avgLeadTime(issues) ==
    LET acc == leadTimeLoop(releasedIssues(issues), 1, 0, 0)
    IN  IF acc[2] > 0 THEN toFixed1(acc[1], acc[2]) ELSE 0

weeksPassed == 4

\* a frequency that counts every issue in status Released
deploymentFrequencyByStatus(issues) ==
    toFixed1(Len(SelectSeq(issues, LAMBDA i : i.status = "Released")),
             weeksPassed)

deploymentFrequency(issues) ==
    toFixed1(Len(releasedIssues(issues)), weeksPassed)

bugs(issues) == SelectSeq(issues, LAMBDA i : i.issuetype = "Bug")

releasedBugs(issues) ==
    SelectSeq(bugs(issues), LAMBDA b : b.status = "Released")

failureRate(issues) ==
    IF Len(releasedIssues(issues)) > 0
    THEN toFixed1(Len(releasedBugs(issues)) * 100, Len(releasedIssues(issues)))
    ELSE 0

\* releasedBugs.forEach(...) from bug k on: <<totalRecoveryTime, recoveryCount>>
RECURSIVE recoveryLoop(_, _, _, _)
recoveryLoop(rbugs, k, totalRecoveryTime, recoveryCount) ==
    IF k > Len(rbugs) THEN <<totalRecoveryTime, recoveryCount>>
    ELSE LET bug == rbugs[k]
         IN  IF bug.created # None /\ bug.resolutiondate # None
             THEN LET recoveryTime ==
                          calculateDaysBetween(bug.created[1],
                                               bug.resolutiondate[1])
                  IN  recoveryLoop(rbugs, k + 1,
                          totalRecoveryTime + recoveryTime * 24,
                          recoveryCount + 1)
             ELSE recoveryLoop(rbugs, k + 1, totalRecoveryTime, recoveryCount)

\* an average taken over all released bugs, not only the counted ones
avgRecoveryTimeOverAll(issues) ==
    LET acc == recoveryLoop(releasedBugs(issues), 1, 0, 0)
    IN  IF acc[2] > 0
        THEN toFixed1(acc[1], Len(releasedBugs(issues))) ELSE 0

avgRecoveryTime(issues) ==
    LET acc == recoveryLoop(releasedBugs(issues), 1, 0, 0)
    IN  IF acc[2] > 0 THEN toFixed1(acc[1], acc[2]) ELSE 0

\* issues.reduce((sum, issue) => sum + (customfield_10024 || 0), 0)
RECURSIVE storyPointsFrom(_, _, _)
storyPointsFrom(issues, k, sum) ==
    IF k > Len(issues) THEN sum
    ELSE storyPointsFrom(issues, k + 1,
             sum + (IF TruthyNum(issues[k].customfield_10024)
                    THEN issues[k].customfield_10024[1] ELSE 0))

\* a velocity that adds up the released issues only
storyPointsReleased(issues) == storyPointsFrom(releasedIssues(issues), 1, 0)

storyPoints(issues) == storyPointsFrom(issues, 1, 0)

calculateDORAMetrics(issues) ==
    [leadTime            |-> avgLeadTime(issues),
     deploymentFrequency |-> deploymentFrequency(issues),
     changeFailureRate   |-> failureRate(issues),
     recoveryTime        |-> avgRecoveryTime(issues),
     velocity            |-> storyPoints(issues)]

-----------------------------------------------------------------------------
(* metrics/health-matrix/route.ts lines 164-247: the dora handler's own     *)
(* copies of the same functions                                             *)

calculateDaysBetweenDora(date1, date2) ==
    LET diffTime == MathAbs(date2 - date1)
    IN  MathCeil(diffTime, DayMs)

\* the inner loop: some item of the history is the wanted status transition
itemsMatchDora(items, statusName) ==
    \E k \in 1 .. Len(items) :
        items[k].field = "status" /\ items[k].toString = statusName

\* the outer loop from history h on: created of the first matching history
RECURSIVE scanHistoriesDora(_, _, _)
scanHistoriesDora(histories, h, statusName) ==
    IF h > Len(histories) THEN None
    ELSE IF itemsMatchDora(histories[h].items, statusName)
         THEN Some(histories[h].created)
         ELSE scanHistoriesDora(histories, h + 1, statusName)

findStatusChangeTimeDora(changelog, statusName) ==
    IF changelog = None THEN None
    ELSE scanHistoriesDora(changelog[1], 1, statusName)

releasedIssuesDora(issues) ==
    SelectSeq(issues,
              LAMBDA i : i.status = "Released" /\ i.resolutiondate # None)

\* releasedIssues.forEach(...) from issue k on: <<totalLeadTime, leadTimeCount>>
RECURSIVE leadTimeLoopDora(_, _, _, _)
leadTimeLoopDora(released, k, totalLeadTime, leadTimeCount) ==
    IF k > Len(released) THEN <<totalLeadTime, leadTimeCount>>
    ELSE LET issue == released[k]
             devStartTime ==
                 findStatusChangeTimeDora(issue.changelog, "In Development")
             releaseTime == issue.resolutiondate[1]
         IN  IF devStartTime # None
             THEN leadTimeLoopDora(released, k + 1,
                      totalLeadTime
                        + calculateDaysBetweenDora(devStartTime[1], releaseTime),
                      leadTimeCount + 1)
             ELSE leadTimeLoopDora(released, k + 1, totalLeadTime, leadTimeCount)

avgLeadTimeDora(issues) ==
    LET acc == leadTimeLoopDora(releasedIssuesDora(issues), 1, 0, 0)
    IN  IF acc[2] > 0 THEN toFixed1(acc[1], acc[2]) ELSE 0

weeksPassedDora == 4

deploymentFrequencyDora(issues) ==
    toFixed1(Len(releasedIssuesDora(issues)), weeksPassedDora)

bugsDora(issues) == SelectSeq(issues, LAMBDA i : i.issuetype = "Bug")

releasedBugsDora(issues) ==
    SelectSeq(bugsDora(issues), LAMBDA b : b.status = "Released")

failureRateDora(issues) ==
    IF Len(releasedIssuesDora(issues)) > 0
    THEN toFixed1(Len(releasedBugsDora(issues)) * 100, Len(releasedIssuesDora(issues)))
    ELSE 0

\* releasedBugs.forEach(...) from bug k on: <<totalRecoveryTime, recoveryCount>>
RECURSIVE recoveryLoopDora(_, _, _, _)
recoveryLoopDora(rbugs, k, totalRecoveryTime, recoveryCount) ==
    IF k > Len(rbugs) THEN <<totalRecoveryTime, recoveryCount>>
    ELSE LET bug == rbugs[k]
         IN  IF bug.created # None /\ bug.resolutiondate # None
             THEN LET recoveryTime ==
                          calculateDaysBetweenDora(bug.created[1],
                                               bug.resolutiondate[1])
                  IN  recoveryLoopDora(rbugs, k + 1,
                          totalRecoveryTime + recoveryTime * 24,
                          recoveryCount + 1)
             ELSE recoveryLoopDora(rbugs, k + 1, totalRecoveryTime, recoveryCount)

avgRecoveryTimeDora(issues) ==
    LET acc == recoveryLoopDora(releasedBugsDora(issues), 1, 0, 0)
    IN  IF acc[2] > 0 THEN toFixed1(acc[1], acc[2]) ELSE 0

\* issues.reduce((sum, issue) => { points = customfield_10024 || 0; ... }, 0)
RECURSIVE storyPointsFromDora(_, _, _)
storyPointsFromDora(issues, k, sum) ==
    IF k > Len(issues) THEN sum
    ELSE storyPointsFromDora(issues, k + 1,
             sum + (IF TruthyNum(issues[k].customfield_10024)
                    THEN issues[k].customfield_10024[1] ELSE 0))

storyPointsDora(issues) == storyPointsFromDora(issues, 1, 0)

calculateDORAMetricsDora(issues) ==
    [leadTime            |-> avgLeadTimeDora(issues),
     deploymentFrequency |-> deploymentFrequencyDora(issues),
     changeFailureRate   |-> failureRateDora(issues),
     recoveryTime        |-> avgRecoveryTimeDora(issues),
     velocity            |-> storyPointsDora(issues)]

-----------------------------------------------------------------------------
(* Direct calls of the two calculateDORAMetrics copies on one issue list    *)

\* `{}`: a record without keys
EmptyRecord == [k \in {} |-> None]

NoEnv == [JIRA_EMAIL |-> None, JIRA_API_TOKEN |-> None, JIRA_DOMAIN |-> None]

NoQuery == [project |-> None, startDate |-> None, endDate |-> None]

HandlerIdle ==
    /\ env = NoEnv
    /\ route = "none"
    /\ query = NoQuery
    /\ pc = "idle"
    /\ idx = 0
    /\ healthMatrix = EmptyRecord
    /\ pending = {}
    /\ reply = None
    /\ caught = None
    /\ responses = <<>>
    /\ trace = <<>>

InitCalc ==
    /\ HandlerIdle
    /\ InIssueLists(input)
    /\ outMatrix = None
    /\ outDora = None

CallMatrixCopy ==
    /\ outMatrix = None
    /\ outMatrix' = Some(calculateDORAMetrics(input))
    /\ UNCHANGED <<input, outDora>>
    /\ UNCHANGED handlerVars

CallDoraCopy ==
    /\ outDora = None
    /\ outDora' = Some(calculateDORAMetricsDora(input))
    /\ UNCHANGED <<input, outMatrix>>
    /\ UNCHANGED handlerVars

NextCalc == CallMatrixCopy \/ CallDoraCopy

SpecCalc == InitCalc /\ [][NextCalc]_vars

-----------------------------------------------------------------------------
(* The upstream search endpoint and what fetch() can settle with            *)

\* a list with a released bug, a released story that entered development,
\* and a bug in status Released that was never resolved
SampleIssues ==
    << Issue("Released", "Bug", Some(0), Some(DayMs + 1), Some(3), None),
       Issue("Released", "Story", Some(0), Some(2 * DayMs), Some(5), DevAtZero),
       Issue("Released", "Bug", Some(0), None, None, None) >>

SampleData ==
    { [issues |-> <<>>, total |-> 0],
      [issues |-> SampleIssues, total |-> 3],
      [issues |-> SampleIssues, total |-> 750] }

\* a settled fetch(): fulfilled with a Response (status, text body, parsed
\* JSON body) or rejected by the transport with a reason
Fulfilled(st, tx, js) ==
    [settled |-> "fulfilled", status |-> st, text |-> tx, json |-> js,
     reason |-> <<>>]

Rejected(why) ==
    [settled |-> "rejected", status |-> 0, text |-> "", json |-> None,
     reason |-> why]

Replies ==
    {Fulfilled(200, "", Some(d)) : d \in SampleData}
      \cup {Fulfilled(401, "Unauthorized", None),
            Fulfilled(500, "Internal Server Error", None)}
      \cup {Rejected(<<"fetch failed">>)}

\* response.ok
ResponseOk(r) == r.status \in 200 .. 299

Envs ==
    [JIRA_EMAIL     : {None, Some(""), Some("bot@example.com")},
     JIRA_API_TOKEN : {None, Some(""), Some("s3cret")},
     JIRA_DOMAIN    : {None, Some(""), Some("acme.atlassian.net")}]

Queries ==
    [project   : {None, Some(""), Some("VEH")},
     startDate : {None, Some(""), Some("2024-01-01")},
     endDate   : {None, Some(""), Some("2024-12-31")}]

Routes == {"health", "health-matrix", "dora"}

\* NextResponse.json(body, { status }); the status defaults to 200
NextResponseJson(body, status) == [status |-> status, body |-> body]

-----------------------------------------------------------------------------
(* metrics/health-matrix/route.ts lines 3-24 and 100-136: health-matrix GET *)

\* the fetch(url, options) call of fetchJiraIssues, lines 4-17
fetchCall(e, jql, fields) ==
    [host          |-> Interpolate(e.JIRA_DOMAIN),
     path          |-> "/rest/api/3/search",
     jql           |-> jql,
     fields        |-> fields,
     maxResults    |-> "500",
     expand        |-> "changelog",
     authorization |-> <<"Basic ", Interpolate(e.JIRA_EMAIL), ":",
                         Interpolate(e.JIRA_API_TOKEN)>>,
     cache         |-> "no-store"]

\* how fetchJiraIssues completes once fetch() has settled, lines 8-23:
\* it throws (message) or returns the parsed body (data)
fetchJiraIssues(r) ==
    IF r.settled = "rejected"
    THEN [threw |-> TRUE, message |-> r.reason, data |-> None]
    ELSE IF ~ResponseOk(r)
         THEN [threw |-> TRUE,
               message |-> <<"JIRA API error: ", ToString(r.status)>>,
               data |-> None]
         ELSE [threw |-> FALSE, message |-> <<>>, data |-> r.json]

projects == <<"DAI", "DGDPO", "DMM", "DE", "VEH", "CAT">>

fields == <<"status", "created", "resolutiondate", "issuetype",
            "customfield_10024">>

\* `project = ${project} AND created >= -30d`
matrixJql(project) == <<"project = ", project, " AND created >= -30d">>

Started(jql) == [event |-> "start", jql |-> jql, outcome |-> None]

Settled(jql, r) ==
    [event |-> "settled", jql |-> jql,
     outcome |-> Some([settled |-> r.settled, status |-> r.status,
                       text |-> r.text, reason |-> r.reason])]

\* a fan-out entry: every project's fetchJiraIssues call is started at once
MatrixStartAll ==
    /\ route = "health-matrix" /\ pc = "start"
    /\ idx' = 1
    /\ healthMatrix' = EmptyRecord
    /\ pending' = pending
                    \cup {fetchCall(env, matrixJql(projects[k]), fields) :
                            k \in DOMAIN projects}
    /\ trace' = trace \o [k \in DOMAIN projects |->
                            Started(matrixJql(projects[k]))]
    /\ pc' = "await"
    /\ UNCHANGED <<env, route, query, reply, caught, responses>>
    /\ UNCHANGED calcVars

\* entry up to the first await: the loop's first fetchJiraIssues call
MatrixStart ==
    /\ route = "health-matrix" /\ pc = "start"
    /\ idx' = 1
    /\ healthMatrix' = EmptyRecord
    /\ pending' = pending \cup {fetchCall(env, matrixJql(projects[1]), fields)}
    /\ trace' = Append(trace, Started(matrixJql(projects[1])))
    /\ pc' = "await"
    /\ UNCHANGED <<env, route, query, reply, caught, responses>>
    /\ UNCHANGED calcVars

\* a catch clause that hands out the metrics gathered before the failure
MatrixCatchPartial ==
    /\ route = "health-matrix" /\ pc = "await" /\ reply # None
    /\ fetchJiraIssues(reply[1]).threw
    /\ caught' = Some(fetchJiraIssues(reply[1]).message)
    /\ responses' = Append(responses,
           NextResponseJson([success |-> FALSE,
                             error   |-> "Failed to fetch health matrix",
                             details |-> fetchJiraIssues(reply[1]).message,
                             data    |-> healthMatrix],
                            500))
    /\ pc' = "done"
    /\ UNCHANGED <<env, route, query, idx, healthMatrix, pending, reply, trace>>
    /\ UNCHANGED calcVars

\* the awaited call threw: the catch clause answers 500
MatrixCatch ==
    /\ route = "health-matrix" /\ pc = "await" /\ reply # None
    /\ fetchJiraIssues(reply[1]).threw
    /\ caught' = Some(fetchJiraIssues(reply[1]).message)
    /\ responses' = Append(responses,
           NextResponseJson([success |-> FALSE,
                             error   |-> "Failed to fetch health matrix",
                             details |-> fetchJiraIssues(reply[1]).message],
                            500))
    /\ pc' = "done"
    /\ UNCHANGED <<env, route, query, idx, healthMatrix, pending, reply, trace>>
    /\ UNCHANGED calcVars

\* healthMatrix[project] = metrics
withMetrics(hm, project, data) ==
    [k \in DOMAIN hm \cup {project} |->
        IF k = project THEN calculateDORAMetrics(data.issues) ELSE hm[k]]

\* the awaited call returned and projects remain: store the metrics and
\* call fetchJiraIssues for the next project
MatrixNext ==
    /\ route = "health-matrix" /\ pc = "await" /\ reply # None
    /\ ~fetchJiraIssues(reply[1]).threw
    /\ idx < Len(projects)
    /\ healthMatrix' = withMetrics(healthMatrix, projects[idx],
                                   fetchJiraIssues(reply[1]).data[1])
    /\ idx' = idx + 1
    /\ reply' = None
    /\ pending' = pending
                    \cup {fetchCall(env, matrixJql(projects[idx + 1]), fields)}
    /\ trace' = Append(trace, Started(matrixJql(projects[idx + 1])))
    /\ UNCHANGED <<env, route, query, pc, caught, responses>>
    /\ UNCHANGED calcVars

\* the awaited call returned for the last project: answer the whole matrix
MatrixReturn ==
    /\ route = "health-matrix" /\ pc = "await" /\ reply # None
    /\ ~fetchJiraIssues(reply[1]).threw
    /\ idx = Len(projects)
    /\ healthMatrix' = withMetrics(healthMatrix, projects[idx],
                                   fetchJiraIssues(reply[1]).data[1])
    /\ responses' = Append(responses,
           NextResponseJson([success |-> TRUE, data |-> healthMatrix'], 200))
    /\ pc' = "done"
    /\ UNCHANGED <<env, route, query, idx, pending, reply, caught, trace>>
    /\ UNCHANGED calcVars

-----------------------------------------------------------------------------
(* metrics/health-matrix/route.ts lines 140-162 and 249-290: dora GET       *)

fetchJiraIssuesDora(r) ==
    IF r.settled = "rejected"
    THEN [threw |-> TRUE, message |-> r.reason, data |-> None]
    ELSE IF ~ResponseOk(r)
         THEN [threw |-> TRUE,
               message |-> <<"JIRA API error: ", ToString(r.status), " - ",
                             r.text>>,
               data |-> None]
         ELSE [threw |-> FALSE, message |-> <<>>, data |-> r.json]

fieldsDora == <<"status", "created", "updated", "resolutiondate", "issuetype",
                "customfield_10024">>

\* searchParams.get('project') || 'DAI'
projectOf(q) == IF TruthyStr(q.project) THEN q.project[1] ELSE "DAI"

\* a builder that adds the endDate bound only inside the startDate branch
doraJqlNested(q) ==
    <<"project = ", projectOf(q)>>
      \o (IF TruthyStr(q.startDate)
          THEN <<" AND created >= \"", q.startDate[1], "\"">>
                 \o (IF TruthyStr(q.endDate)
                     THEN <<" AND created <= \"", q.endDate[1], "\"">>
                     ELSE <<>>)
          ELSE <<>>)

\* let jql = `project = ${project}`; if (startDate) ...; if (endDate) ...
doraJql(q) ==
    <<"project = ", projectOf(q)>>
      \o (IF TruthyStr(q.startDate)
          THEN <<" AND created >= \"", q.startDate[1], "\"">> ELSE <<>>)
      \o (IF TruthyStr(q.endDate)
          THEN <<" AND created <= \"", q.endDate[1], "\"">> ELSE <<>>)

\* entry up to the await of fetchJiraIssues
DoraStart ==
    /\ route = "dora" /\ pc = "start"
    /\ pending' = pending \cup {fetchCall(env, doraJql(query), fieldsDora)}
    /\ trace' = Append(trace, Started(doraJql(query)))
    /\ pc' = "await"
    /\ UNCHANGED <<env, route, query, idx, healthMatrix, reply, caught,
                   responses>>
    /\ UNCHANGED calcVars

DoraCatch ==
    /\ route = "dora" /\ pc = "await" /\ reply # None
    /\ fetchJiraIssuesDora(reply[1]).threw
    /\ caught' = Some(fetchJiraIssuesDora(reply[1]).message)
    /\ responses' = Append(responses,
           NextResponseJson([success |-> FALSE,
                             error   |-> "Failed to fetch DORA metrics",
                             details |-> fetchJiraIssuesDora(reply[1]).message],
                            500))
    /\ pc' = "done"
    /\ UNCHANGED <<env, route, query, idx, healthMatrix, pending, reply, trace>>
    /\ UNCHANGED calcVars

DoraReturn ==
    /\ route = "dora" /\ pc = "await" /\ reply # None
    /\ ~fetchJiraIssuesDora(reply[1]).threw
    /\ LET data == fetchJiraIssuesDora(reply[1]).data[1]
       IN  responses' = Append(responses,
               NextResponseJson(
                   [success     |-> TRUE,
                    project     |-> projectOf(query),
                    totalIssues |-> data.total,
                    metrics     |-> calculateDORAMetricsDora(data.issues)],
                   200))
    /\ pc' = "done"
    /\ UNCHANGED <<env, route, query, idx, healthMatrix, pending, reply, caught,
                   trace>>
    /\ UNCHANGED calcVars

-----------------------------------------------------------------------------
(* health/route.ts: health GET                                              *)

\* a check that is satisfied with either credential
jiraConnectedEither(e) == TruthyStr(e.JIRA_EMAIL) \/ TruthyStr(e.JIRA_API_TOKEN)

\* !!(process.env.JIRA_EMAIL && process.env.JIRA_API_TOKEN)
jiraConnected(e) == TruthyStr(e.JIRA_EMAIL) /\ TruthyStr(e.JIRA_API_TOKEN)

\* process.env.JIRA_DOMAIN || 'Not configured'
domainOf(e) ==
    IF TruthyStr(e.JIRA_DOMAIN) THEN e.JIRA_DOMAIN[1] ELSE "Not configured"

HealthGET ==
    /\ route = "health" /\ pc = "start"
    /\ responses' = Append(responses,
           NextResponseJson([status        |-> "ok",
                             message       |-> "DMINT Dashboard API is running",
                             jiraConnected |-> jiraConnected(env),
                             domain        |-> domainOf(env)],
                            200))
    /\ pc' = "done"
    /\ UNCHANGED <<env, route, query, idx, healthMatrix, pending, reply, caught,
                   trace>>
    /\ UNCHANGED calcVars

-----------------------------------------------------------------------------
(* One invocation of one handler against the upstream                       *)

\* the upstream (or the transport) settles an outstanding fetch()
Upstream ==
    /\ reply = None
    /\ \E call \in pending, r \in Replies :
          /\ pending' = pending \ {call}
          /\ reply' = Some(r)
          /\ trace' = Append(trace, Settled(call.jql, r))
    /\ UNCHANGED <<env, route, query, pc, idx, healthMatrix, caught, responses>>
    /\ UNCHANGED calcVars

Init ==
    /\ route \in Routes
    /\ env \in Envs
    /\ query \in (IF route = "dora" THEN Queries ELSE {NoQuery})
    /\ pc = "start"
    /\ idx = 0
    /\ healthMatrix = EmptyRecord
    /\ pending = {}
    /\ reply = None
    /\ caught = None
    /\ responses = <<>>
    /\ trace = <<>>
    /\ input = <<>>
    /\ outMatrix = None
    /\ outDora = None

Next ==
    \/ HealthGET
    \/ MatrixStart
    \/ MatrixCatch
    \/ MatrixNext
    \/ MatrixReturn
    \/ DoraStart
    \/ DoraCatch
    \/ DoraReturn
    \/ Upstream

Spec == Init /\ [][Next]_vars

-----------------------------------------------------------------------------
(* What the metrics are claimed to be, stated over the index set of the    *)
(* issue list                                                               *)

RECURSIVE SumOver(_, _)
SumOver(f, S) ==
    IF S = {} THEN 0
    ELSE LET k == CHOOSE k \in S : TRUE IN f[k] + SumOver(f, S \ {k})

\* n / d rounded to one decimal, in tenths: the tenth t with
\* t - 1/2 <= 10 n / d < t + 1/2
Round1(n, d) ==
    CHOOSE t \in 0 .. ((10 * n) \div d + 1) :
        2 * t * d - d <= 20 * n /\ 20 * n < 2 * t * d + d

\* whole days covering a span of ms milliseconds: the least such number
DaysCovering(ms) ==
    CHOOSE n \in 0 .. (ms \div DayMs + 1) :
        n * DayMs >= ms /\ \A m \in 0 .. (ms \div DayMs + 1) :
                               m * DayMs >= ms => n <= m

Distance(a, b) == IF a >= b THEN a - b ELSE b - a

IsReleased(i) == i.status = "Released" /\ i.resolutiondate # None

Released(l) == {k \in DOMAIN l : IsReleased(l[k])}

\* positions of the histories holding a status transition to In Development
DevTransitions(i) ==
    IF i.changelog = None THEN {}
    ELSE {h \in DOMAIN i.changelog[1] :
            \E it \in {i.changelog[1][h].items[n] :
                         n \in DOMAIN i.changelog[1][h].items} :
                it.field = "status" /\ it.toString = "In Development"}

FirstDevStart(i) ==
    LET first == CHOOSE h \in DevTransitions(i) :
                     \A g \in DevTransitions(i) : h <= g
    IN  i.changelog[1][first].created

LeadQualifying(l) == {k \in Released(l) : DevTransitions(l[k]) # {}}

ExpectedLeadTime(l) ==
    IF LeadQualifying(l) = {} THEN 0
    ELSE Round1(SumOver([k \in LeadQualifying(l) |->
                           DaysCovering(Distance(l[k].resolutiondate[1],
                                                 FirstDevStart(l[k])))],
                        LeadQualifying(l)),
                Cardinality(LeadQualifying(l)))

RecoveryQualifying(l) ==
    {k \in Released(l) : l[k].issuetype = "Bug" /\ l[k].created # None}

ExpectedRecoveryTime(l) ==
    IF RecoveryQualifying(l) = {} THEN 0
    ELSE Round1(SumOver([k \in RecoveryQualifying(l) |->
                           24 * DaysCovering(Distance(l[k].resolutiondate[1],
                                                      l[k].created[1]))],
                        RecoveryQualifying(l)),
                Cardinality(RecoveryQualifying(l)))

ReleasedBugsOf(l) == {k \in Released(l) : l[k].issuetype = "Bug"}

ExpectedChangeFailureRate(l) ==
    IF Released(l) = {} THEN 0
    ELSE Round1(100 * Cardinality(ReleasedBugsOf(l)), Cardinality(Released(l)))

ExpectedVelocity(l) ==
    SumOver([k \in DOMAIN l |->
               IF l[k].customfield_10024 = None THEN 0
               ELSE l[k].customfield_10024[1]],
            DOMAIN l)

\* the results computed so far, of either copy
Outputs == {o[1] : o \in {outMatrix, outDora} \ {None}}

BothCopiesCalled == outMatrix # None /\ outDora # None

-----------------------------------------------------------------------------
(* Claims about calculateDORAMetrics, checked under SpecCalc                *)

\* C2: changeFailureRate is 0 when no issue is released (status Released and
\* a resolutiondate), and otherwise 100 * releasedBugs / released rounded to
\* one decimal, where releasedBugs are the Bug issues among the released
\* ones; so it never exceeds 100, also when a Bug has status Released but
\* no resolutiondate.
C2_ChangeFailureRate ==
    \A m \in Outputs :
        /\ m.changeFailureRate = ExpectedChangeFailureRate(input)
        /\ m.changeFailureRate <= 1000

\* C4: leadTime is the mean, rounded to one decimal, of
\* ceil(|resolution - devStart| / 1 day) over exactly the released issues
\* whose changelog holds a status transition to In Development, devStart
\* being the created time of the first such history in the given order;
\* it is 0 when no issue qualifies and never negative.
C4_LeadTime ==
    \A m \in Outputs :
        m.leadTime = ExpectedLeadTime(input) /\ m.leadTime >= 0

\* C4 witness: both copies ran on a released issue whose changelog holds two
\* matching transitions at different times, preceded by a non-matching item.
C4_Witness ==
    /\ BothCopiesCalled
    /\ \E k \in LeadQualifying(input) :
          LET hs == input[k].changelog[1]
          IN  /\ \E g, h \in DevTransitions(input[k]) :
                     g < h /\ hs[g].created > hs[h].created
              /\ \E h \in DevTransitions(input[k]) :
                     Len(hs[h].items) = 2 /\ hs[h].items[1].field # "status"
    /\ \A m \in Outputs : m.leadTime > 0

\* C5: recoveryTime is the mean, rounded to one decimal, of
\* ceil(|resolution - created| / 1 day) * 24 over exactly the released bugs
\* that have both a creation and a resolution timestamp; it is 0 when no bug
\* qualifies.
C5_RecoveryTime ==
    \A m \in Outputs : m.recoveryTime = ExpectedRecoveryTime(input)

\* C5 witness: both copies ran on a list with a qualifying bug, a bug in
\* status Released without resolutiondate, one without created, a bug that
\* is not released and a released issue that is no bug.
C5_Witness ==
    /\ BothCopiesCalled
    /\ RecoveryQualifying(input) # {}
    /\ \E k \in DOMAIN input :
          /\ input[k].issuetype = "Bug" /\ input[k].status = "Released"
          /\ input[k].created = None /\ input[k].resolutiondate # None
    /\ \E k \in DOMAIN input :
          /\ input[k].issuetype = "Bug" /\ input[k].status = "Released"
          /\ input[k].resolutiondate = None
    /\ \A m \in Outputs : m.recoveryTime = 480

\* C6: deploymentFrequency is count(released) / 4 rounded to one decimal,
\* released being the issues with status Released and a resolutiondate, for
\* every issue list and in both copies.
C6_DeploymentFrequency ==
    \A m \in Outputs :
        m.deploymentFrequency = Round1(Cardinality(Released(input)), 4)

\* C6 witness: both copies ran on a list with one released issue and an
\* issue in status Released without resolutiondate (0.25 reads 0.3).
C6_Witness ==
    /\ BothCopiesCalled
    /\ Cardinality(Released(input)) = 1
    /\ \E k \in DOMAIN input :
          input[k].status = "Released" /\ input[k].resolutiondate = None
    /\ \A m \in Outputs : m.deploymentFrequency = 3

\* C7: velocity is the sum of customfield_10024 over all input issues,
\* whatever their status or type, an absent value counting 0; on the empty
\* list velocity and every other metric are 0.
C7_Velocity ==
    \A m \in Outputs :
        /\ m.velocity = ExpectedVelocity(input)
        /\ input = <<>> =>
              m = [leadTime |-> 0, deploymentFrequency |-> 0,
                   changeFailureRate |-> 0, recoveryTime |-> 0, velocity |-> 0]

\* C7 witness: both copies ran on a list holding an unreleased issue with
\* points, a released one with points and an issue without points.
C7_Witness ==
    /\ BothCopiesCalled
    /\ \E k \in DOMAIN input \ Released(input) :
          input[k].customfield_10024 \notin {None, Some(0)}
    /\ \E k \in Released(input) :
          input[k].customfield_10024 \notin {None, Some(0)}
    /\ \E k \in DOMAIN input : input[k].customfield_10024 = None
    /\ \A m \in Outputs : m.velocity > 0

-----------------------------------------------------------------------------
(* Claims about the handlers, checked under Spec                            *)

SettledAt == {k \in DOMAIN trace : trace[k].event = "settled"}

\* the fetch settled at trace position k failed: the transport rejected it
\* or the upstream answered with a non-success status
FailedAt(k) ==
    \/ trace[k].outcome[1].settled = "rejected"
    \/ trace[k].outcome[1].status \notin 200 .. 299

Contains(text, piece) == \E n \in DOMAIN text : text[n] = piece

ProjectKeys == {"DAI", "DGDPO", "DMM", "DE", "VEH", "CAT"}

\* C1: in the health-matrix and the dora handler a failed fetch leads to
\* exactly one response, status 500, body {success: false, error, details}
\* and nothing else (no metrics of projects fetched before); success: true
\* is answered only when every fetch of the invocation succeeded, and the
\* health-matrix answer then has an entry for each of the six project keys.
C1_FailureEnvelope ==
    route \in {"health-matrix", "dora"} =>
        /\ Len(responses) <= 1
        /\ pc = "done" => Len(responses) = 1
        /\ (pc = "done" /\ \E k \in SettledAt : FailedAt(k)) =>
              /\ responses[1].status = 500
              /\ DOMAIN responses[1].body = {"success", "error", "details"}
              /\ responses[1].body.success = FALSE
        /\ \A n \in DOMAIN responses :
              responses[n].body.success = TRUE =>
                  /\ \A k \in SettledAt : ~FailedAt(k)
                  /\ Cardinality(SettledAt)
                       = (IF route = "health-matrix" THEN 6 ELSE 1)
                  /\ route = "health-matrix" =>
                         DOMAIN responses[n].body.data = ProjectKeys

\* C1 witness: the health-matrix handler answered 500 after the metrics of
\* two projects had been stored.
C1_Witness ==
    /\ route = "health-matrix" /\ pc = "done"
    /\ DOMAIN healthMatrix = {"DAI", "DGDPO"}
    /\ healthMatrix["DAI"].velocity > 0
    /\ responses[1].status = 500

\* C3: whenever the upstream answers a search call with a non-success
\* status, the details of the resulting 500 response carry both the
\* upstream status code and the upstream response body, in the
\* health-matrix handler as in the dora handler.
C3_ErrorCarriesStatusAndBody ==
    \A k \in SettledAt :
        (/\ pc = "done"
         /\ trace[k].outcome[1].settled = "fulfilled"
         /\ trace[k].outcome[1].status \notin 200 .. 299) =>
            /\ responses[1].status = 500
            /\ Contains(responses[1].body.details,
                        ToString(trace[k].outcome[1].status))
            /\ Contains(responses[1].body.details, trace[k].outcome[1].text)

\* a query parameter that was given a value
Given(o) == o \notin {None, Some("")}

\* C8: the dora handler's query is the project filter for the given project
\* key (DAI when omitted), followed by a created >= bound iff startDate is
\* given and a created <= bound iff endDate is given, each independently;
\* on success the response reports that project key and the total the
\* upstream reported.
C8_DoraQuery ==
    (route = "dora" /\ trace # <<>>) =>
        LET jql == trace[1].jql
            key == IF Given(query.project) THEN query.project[1] ELSE "DAI"
            nBounds == (IF Given(query.startDate) THEN 1 ELSE 0)
                         + (IF Given(query.endDate) THEN 1 ELSE 0)
        IN  /\ Len(jql) = 2 + 3 * nBounds
            /\ SubSeq(jql, 1, 2) = <<"project = ", key>>
            /\ Given(query.startDate) =>
                  SubSeq(jql, 3, 5)
                    = <<" AND created >= \"", query.startDate[1], "\"">>
            /\ Given(query.endDate) =>
                  SubSeq(jql, Len(jql) - 2, Len(jql))
                    = <<" AND created <= \"", query.endDate[1], "\"">>
            /\ (pc = "done" /\ responses[1].body.success = TRUE) =>
                  /\ responses[1].body.project = key
                  /\ responses[1].body.totalIssues = reply[1].json[1].total

\* C8 witness: a successful dora answer for a request without project and
\* startDate but with endDate, the upstream reporting more issues than it
\* returned.
C8_Witness ==
    /\ route = "dora" /\ pc = "done"
    /\ query.project = None /\ query.startDate = None
    /\ Given(query.endDate)
    /\ responses[1].body.success = TRUE
    /\ responses[1].body.totalIssues = 750

\* C9: the health handler answers status ok, jiraConnected true iff both
\* the email and the API token are configured, domain the configured domain
\* or 'Not configured', and performs no network call.
C9_Health ==
    route = "health" =>
        /\ trace = <<>> /\ pending = {}
        /\ pc = "done" =>
              /\ Len(responses) = 1
              /\ responses[1].body.status = "ok"
              /\ responses[1].body.jiraConnected
                   = (Given(env.JIRA_EMAIL) /\ Given(env.JIRA_API_TOKEN))
              /\ responses[1].body.domain
                   = (IF Given(env.JIRA_DOMAIN) THEN env.JIRA_DOMAIN[1]
                      ELSE "Not configured")

\* C9 witness: the health handler answered although none of the three
\* settings is configured.
C9_Witness ==
    /\ route = "health" /\ pc = "done"
    /\ env = NoEnv
    /\ responses[1].body.jiraConnected = FALSE
    /\ responses[1].body.domain = "Not configured"

ProjectOrder == <<"DAI", "DGDPO", "DMM", "DE", "VEH", "CAT">>

\* C10: the health-matrix handler starts its fetches in the order DAI,
\* DGDPO, DMM, DE, VEH, CAT, each at most once and at most one in flight;
\* a fetch starts only after the preceding one completed successfully, no
\* fetch starts after a failure, and the details of a 500 response are
\* those of the first failing project.
C10_Sequential ==
    route = "health-matrix" =>
        /\ Cardinality(pending) <= 1
        /\ Len(trace) <= 2 * Len(ProjectOrder)
        /\ \A k \in DOMAIN trace :
              IF k % 2 = 1
              THEN /\ trace[k].event = "start"
                   /\ trace[k].jql[2] = ProjectOrder[(k + 1) \div 2]
                   /\ k > 1 => ~FailedAt(k - 1)
              ELSE /\ trace[k].event = "settled"
                   /\ trace[k].jql = trace[k - 1].jql
        /\ (pc = "done" /\ responses[1].status = 500) =>
              LET last == trace[Len(trace)].outcome[1]
              IN  /\ FailedAt(Len(trace))
                  /\ IF last.settled = "rejected"
                     THEN responses[1].body.details = last.reason
                     ELSE Contains(responses[1].body.details,
                                   ToString(last.status))

\* C10 witness: the fetch for the third project failed after two successes
\* and the handler answered 500 without starting a fourth.
C10_Witness ==
    /\ route = "health-matrix" /\ pc = "done"
    /\ Len(trace) = 6
    /\ trace[5].jql[2] = "DMM"
    /\ FailedAt(6)
    /\ responses[1].status = 500

====
